---- MODULE Spec2Model ----
(***************************************************************************)
(* Equipment custody and request approval core of the police inventory     *)
(* system: the Equipment and Request mongoose models and the express       *)
(* route handlers that load a document, run a model method on it and save  *)
(* it.  Every `await` in a handler is a point where another handler may    *)
(* run, so a handler is a sequence of steps over a private copy (doc) of   *)
(* the stored document.                                                    *)
(*                                                                         *)
(* A document carries the fields the custody and approval logic reads or   *)
(* writes; descriptive fields (name, category, reason, priority, ...) are  *)
(* left out.  requestId is the digits of the day's sequence number: all    *)
(* requests of a behaviour are created on the same calendar day.  The      *)
(* administrator's route that calls approve / reject / complete is not     *)
(* part of the sources at hand; LoadRequest stands for its                 *)
(* Request.findById.  Neither is the EquipmentPool model: EquipmentPool    *)
(* and updateCounts follow the description of the allocation pool.         *)
(***************************************************************************)
EXTENDS Integers, Sequences, FiniteSets, TLC

(* ------------------------------ bounds -------------------------------- *)
NumEquipment == 1   \* equipment ids that can be added
MaxTime == 2        \* last value of the clock
MaxRequests == 1    \* requests that can be created
MaxHistory == 2     \* status changes one request can go through
MaxCreates == 2     \* requests that can be created when only officers act
PoolTotalQuantity == 1   \* totalQuantity of the equipment pool
MaxRecords == 2     \* equipment records when serial numbers are told apart
EarlierRequests == 9998   \* requests of a day that is almost out of 4 digits

EquipmentIds == 1..NumEquipment
\* the handlers that can be in flight at the same time
Procs == {"h1", "h2"}
\* users with the officer role and with the admin role
Officers == {"o1", "o2"}
Admins == {"a1"}

(* --------------------------- Equipment schema -------------------------- *)
\* status enum, Equipment.js:57
EquipmentStatuses == {"Available", "Issued", "Under Maintenance", "Retired"}

\* equipmentId: null
NoEquipment == 0
NoUser == "none"
NoDoc == [absent |-> TRUE]
NoDate == 0
Undefined == "undefined"

\* the stored fields of an Equipment document that the custody core reads
\* or writes: status, issuedTo.userId, lastModifiedBy
EquipmentDoc == [status : EquipmentStatuses,
                 issuedTo : Officers \cup {NoUser},
                 lastModifiedBy : Admins \cup {NoUser}]

(* ---------------------------- Request schema --------------------------- *)
\* requestType enum, Request.js:20
RequestTypes == {"Issue", "Return", "Maintenance"}
\* status enum, Request.js:25
RequestStatuses == {"Pending", "Approved", "Rejected", "Completed", "Cancelled"}
NoNotes == "undefined"
Notes == {NoNotes, "note"}

VARIABLES
  equipment,   \* the equipments collection: id -> document or NoDoc
  requests,    \* the requests collection: a sequence of documents, _id = index
  now,         \* the clock read by new Date()
  pc,          \* per handler: the await it is suspended at
  doc,         \* per handler: the document it loaded
  req,         \* per handler: the request parameters (params, body, user)
  res          \* the response sent by the last step (NoRes when it sent none)

vars == <<equipment, requests, now, pc, doc, req, res>>

NoReq == [id |-> 0]
NoRes == [route |-> "none", id |-> 0, code |-> 0]

\* document.save(): writes the paths modified since the load to the stored
\* document; fails when the stored document no longer exists
SavePaths(stored, local, paths) ==
  [f \in DOMAIN stored |-> IF f \in paths THEN local[f] ELSE stored[f]]

\* a guard that only refuses an item that is already issued
CanIssueUnlessIssued(this) == this.status # "Issued"

\* the guard of issueToUser: it throws unless this.status is 'Available'
CanIssue(this) == this.status = "Available"

\* a guard that only refuses an item that is already available
CanReturnUnlessAvailable(this) == this.status # "Available"

\* the guard of returnFromUser: it throws unless this.status is 'Issued'
CanReturn(this) == this.status = "Issued"

\* equipmentSchema.methods.issueToUser: the document after the assignments
issueToUser(this, userId) ==
  [this EXCEPT !.status = "Issued", !.issuedTo = userId]

\* a return that sets the status and leaves the holder in place
returnKeepingHolder(this) == [this EXCEPT !.status = "Available"]

\* equipmentSchema.methods.returnFromUser: the document after the assignments
returnFromUser(this) ==
  [this EXCEPT !.status = "Available", !.issuedTo = NoUser]

Init ==
  /\ equipment = [e \in EquipmentIds |-> NoDoc]
  /\ requests = <<>>
  /\ now = 1
  /\ pc = [p \in Procs |-> "idle"]
  /\ doc = [p \in Procs |-> NoDoc]
  /\ req = [p \in Procs |-> NoReq]
  /\ res = NoRes

\* res.status(code).json(...) of a handler that was suspended: the worker is
\* free for the next request
Finish(p, code) ==
  /\ pc' = [pc EXCEPT ![p] = "idle"]
  /\ doc' = [doc EXCEPT ![p] = NoDoc]
  /\ req' = [req EXCEPT ![p] = NoReq]
  /\ res' = [route |-> pc[p], id |-> req[p].id, code |-> code]

\* res.status(code).json(...) before the handler's first await
Reply(route, id, code) ==
  /\ res' = [route |-> route, id |-> id, code |-> code]
  /\ UNCHANGED <<pc, doc, req>>

\* a handler suspends at an await holding document d
Suspend(p, label, d, r) ==
  /\ pc' = [pc EXCEPT ![p] = label]
  /\ doc' = [doc EXCEPT ![p] = d]
  /\ req' = [req EXCEPT ![p] = r]
  /\ res' = NoRes

\* POST /api/equipment: a new document with the schema defaults
AddEquipment(p, e, admin) ==
  /\ pc[p] = "idle"
  /\ equipment[e] = NoDoc
  /\ equipment' = [equipment EXCEPT ![e] =
        [status |-> "Available", issuedTo |-> NoUser, lastModifiedBy |-> NoUser]]
  /\ Reply("add", e, 201)
  /\ UNCHANGED <<requests, now>>

\* PUT /api/equipment/:id/issue, up to the await of Equipment.findById
IssueLoad(p, e, admin, userId) ==
  /\ pc[p] = "idle"
  /\ IF equipment[e] = NoDoc
       THEN Reply("issue", e, 404)
       ELSE Suspend(p, "issue", equipment[e],
                    [id |-> e, user |-> admin, userId |-> userId])
  /\ UNCHANGED <<equipment, requests, now>>

\* PUT /api/equipment/:id/issue, from equipment.issueToUser(...) to the response
IssueCall(p) ==
  /\ pc[p] = "issue"
  /\ LET e == req[p].id
         this == doc[p]
     IN IF ~CanIssue(this)
          THEN \* issueToUser throws, the catch answers 400
               /\ Finish(p, 400)
               /\ UNCHANGED equipment
          ELSE IF equipment[e] = NoDoc
            THEN \* save() of a document that was deleted meanwhile throws
                 /\ Finish(p, 400)
                 /\ UNCHANGED equipment
            ELSE /\ equipment' = [equipment EXCEPT ![e] =
                       SavePaths(@, issueToUser(this, req[p].userId),
                                 {"status", "issuedTo"})]
                 /\ Finish(p, 200)
  /\ UNCHANGED <<requests, now>>

\* PUT /api/equipment/:id/return, up to the await of Equipment.findById
ReturnLoad(p, e, admin) ==
  /\ pc[p] = "idle"
  /\ IF equipment[e] = NoDoc
       THEN Reply("return", e, 404)
       ELSE Suspend(p, "return", equipment[e], [id |-> e, user |-> admin])
  /\ UNCHANGED <<equipment, requests, now>>

\* PUT /api/equipment/:id/return, from equipment.returnFromUser() to the response
ReturnCall(p) ==
  /\ pc[p] = "return"
  /\ LET e == req[p].id
         this == doc[p]
     IN IF ~CanReturn(this)
          THEN /\ Finish(p, 400)
               /\ UNCHANGED equipment
          ELSE IF equipment[e] = NoDoc
            THEN /\ Finish(p, 400)
                 /\ UNCHANGED equipment
            ELSE /\ equipment' = [equipment EXCEPT ![e] =
                       SavePaths(@, returnFromUser(this),
                                 {"status", "issuedTo"})]
                 /\ Finish(p, 200)
  /\ UNCHANGED <<requests, now>>

\* PUT /api/equipment/:id, up to the await of Equipment.findById; the body's
\* status is one of the enum values or undefined (Undefined)
UpdateLoad(p, e, admin, status) ==
  /\ pc[p] = "idle"
  /\ IF equipment[e] = NoDoc
       THEN Reply("update", e, 404)
       ELSE \* the loaded document is not used after the null check
            Suspend(p, "update", NoDoc,
                    [id |-> e, user |-> admin, status |-> status])
  /\ UNCHANGED <<equipment, requests, now>>

\* the updates object of PUT /api/equipment/:id applied by findByIdAndUpdate
ApplyUpdates(stored, status, admin) ==
  [stored EXCEPT !.status = IF status = Undefined THEN @ ELSE status,
                 !.lastModifiedBy = admin]

\* PUT /api/equipment/:id, from Equipment.findByIdAndUpdate to the response
UpdateCommit(p) ==
  /\ pc[p] = "update"
  /\ LET e == req[p].id
     IN equipment' = [equipment EXCEPT ![e] =
          IF @ = NoDoc THEN @ ELSE ApplyUpdates(@, req[p].status, req[p].user)]
  /\ Finish(p, 200)
  /\ UNCHANGED <<requests, now>>

\* DELETE /api/equipment/:id, up to the await of Equipment.findByIdAndDelete
DeleteLoad(p, e, admin) ==
  /\ pc[p] = "idle"
  /\ IF equipment[e] = NoDoc
       THEN Reply("delete", e, 404)
       ELSE IF equipment[e].status = "Issued"
         THEN Reply("delete", e, 400)
         ELSE \* the loaded document is not used after the status check
              Suspend(p, "delete", NoDoc, [id |-> e, user |-> admin])
  /\ UNCHANGED <<equipment, requests, now>>

\* DELETE /api/equipment/:id, from Equipment.findByIdAndDelete to the response
DeleteCommit(p) ==
  /\ pc[p] = "delete"
  /\ equipment' = [equipment EXCEPT ![req[p].id] = NoDoc]
  /\ Finish(p, 200)
  /\ UNCHANGED <<requests, now>>

NextAsset ==
  \/ \E p \in Procs, e \in EquipmentIds, a \in Admins : AddEquipment(p, e, a)
  \/ \E p \in Procs, e \in EquipmentIds, a \in Admins, u \in Officers :
        IssueLoad(p, e, a, u)
  \/ \E p \in Procs : IssueCall(p)
  \/ \E p \in Procs, e \in EquipmentIds, a \in Admins : ReturnLoad(p, e, a)
  \/ \E p \in Procs : ReturnCall(p)
  \/ \E p \in Procs, e \in EquipmentIds, a \in Admins,
        s \in EquipmentStatuses \cup {Undefined} : UpdateLoad(p, e, a, s)
  \/ \E p \in Procs : UpdateCommit(p)
  \/ \E p \in Procs, e \in EquipmentIds, a \in Admins : DeleteLoad(p, e, a)
  \/ \E p \in Procs : DeleteCommit(p)

SpecAsset == Init /\ [][NextAsset]_vars

(* ------------------------------ requests ------------------------------ *)
RequestIds == 1..MaxRequests

\* handlers that are between their first await and the insert of a new request
Creating == {p \in Procs : pc[p] \in {"create", "createId", "createSave"}}

\* handlers holding a loaded copy of request r that they are about to save
Saving(r) == {p \in Procs : pc[p] \in {"cancel", "approve", "reject", "complete"}
                            /\ req[p].id = r}

\* new Request({...}) with the schema defaults, Request.js:3-91
NewRequest(user, e, requestType, expectedReturnDate) ==
  [requestId |-> <<>>, requestedBy |-> user, equipmentId |-> e,
   requestType |-> requestType, status |-> "Pending",
   expectedReturnDate |-> expectedReturnDate,
   adminNotes |-> NoNotes, processedBy |-> NoUser, processedDate |-> NoDate,
   approvedDate |-> NoDate, completedDate |-> NoDate, statusHistory |-> <<>>]

\* an Issue request is refused only for a retired item
IsRetired(eq) == eq.status = "Retired"

\* the test that refuses an Issue request: equipment.status !== 'Available'
NotAvailable(eq) == eq.status # "Available"

\* a Return request is refused only when the item is not Issued
NotIssued(eq, user) == eq.status # "Issued"

\* the test that refuses a Return request: the item is not Issued, or has no
\* holder, or its holder is not the requester
NotIssuedTo(eq, user) ==
  eq.status # "Issued" \/ eq.issuedTo = NoUser \/ eq.issuedTo # user

\* POST /api/officer/requests up to its first await after Equipment.findById
CreateLoad(p, e, user, requestType, expectedReturnDate) ==
  /\ pc[p] = "idle"
  /\ LET r == [id |-> e, user |-> user, requestType |-> requestType,
               expectedReturnDate |-> expectedReturnDate]
         eq == equipment[e]
     IN IF eq = NoDoc
          THEN Reply("create", e, 404)
          ELSE IF requestType = "Issue"
            THEN IF NotAvailable(eq)
                   THEN Reply("create", e, 400)
                   ELSE Suspend(p, "create", NoDoc, r)
            ELSE IF requestType = "Return" /\ NotIssuedTo(eq, user)
                   THEN Reply("create", e, 400)
                   ELSE Suspend(p, "createId", NoDoc, r)
  /\ UNCHANGED <<equipment, requests, now>>

\* Request.findOne({requestedBy, equipmentId, requestType: 'Issue', status: 'Pending'})
ExistingRequest(user, e) ==
  {i \in DOMAIN requests : /\ requests[i].requestedBy = user
                           /\ requests[i].equipmentId = e
                           /\ requests[i].requestType = "Issue"
                           /\ requests[i].status = "Pending"}

\* POST /api/officer/requests, the duplicate check of an Issue request
CreateFindExisting(p) ==
  /\ pc[p] = "create"
  /\ IF ExistingRequest(req[p].user, req[p].id) # {}
       THEN Finish(p, 400)
       ELSE /\ pc' = [pc EXCEPT ![p] = "createId"]
            /\ res' = NoRes
            /\ UNCHANGED <<doc, req>>
  /\ UNCHANGED <<equipment, requests, now>>

\* a string of decimal digits is the sequence of its digits, first digit
\* first; String(n) is the decimal numeral of n
RECURSIVE String(_)
String(n) == IF n < 10 THEN <<n>> ELSE Append(String(n \div 10), n % 10)

\* s.padStart(targetLength, '0')
padStart(s, targetLength) ==
  IF Len(s) >= targetLength THEN s
  ELSE [i \in 1..targetLength |->
          IF i <= targetLength - Len(s) THEN 0 ELSE s[i - (targetLength - Len(s))]]

\* parseInt of a string of decimal digits
RECURSIVE parseInt(_)
parseInt(s) ==
  IF s = <<>> THEN 0
  ELSE 10 * parseInt(SubSeq(s, 1, Len(s) - 1)) + s[Len(s)]

\* the order of strings by which sort({ requestId: -1 }) sorts: at the first
\* position where a and b differ a has the smaller character, or a is a
\* proper prefix of b
StringLess(a, b) ==
  \E k \in 0..Len(a) :
    /\ k <= Len(b)
    /\ SubSeq(a, 1, k) = SubSeq(b, 1, k)
    /\ IF k = Len(a) THEN k < Len(b)
       ELSE k < Len(b) /\ a[k + 1] < b[k + 1]

\* the width to which the sequence number is padded
SequenceWidth == 4

\* the identifiers REQ-<Date.now()>-<random> of the fallback scheme, written
\* as one negative number each: they do not match the pattern of the day's
\* identifiers
FallbackIds == {<<0 - k>> : k \in 1..MaxCreates}

\* the sequence number after the one of the day's last request, which is the
\* greatest requestId of the day in the order of strings (every request of a
\* behaviour is created on the same calendar day, so that a requestId is
\* written as the digits that follow REQ-yyyymmdd-)
NextSequence ==
  LET day == {requests[i].requestId : i \in DOMAIN requests} \ FallbackIds
  IN IF day = {} THEN 1
     ELSE LET lastRequest == CHOOSE m \in day :
                               \A n \in day : n = m \/ StringLess(n, m)
          IN parseInt(lastRequest) + 1

\* requestSchema.pre('validate'): the findOne of the day's last request
CreateGenId(p) ==
  /\ pc[p] = "createId"
  /\ pc' = [pc EXCEPT ![p] = "createSave"]
  /\ doc' = [doc EXCEPT ![p] =
       [NewRequest(req[p].user, req[p].id, req[p].requestType,
                   req[p].expectedReturnDate) EXCEPT !.requestId =
                      padStart(String(NextSequence), SequenceWidth)]]
  /\ res' = NoRes
  /\ UNCHANGED <<equipment, requests, now, req>>

\* requestSchema.pre('validate') when the findOne throws: the catch block sets
\* the fallback identifier k, which its random part keeps apart from the
\* identifiers of the stored requests and of the requests being created
CreateGenIdFallback(p, k) ==
  /\ pc[p] = "createId"
  /\ \A i \in DOMAIN requests : requests[i].requestId # k
  /\ \A q \in Procs : pc[q] = "createSave" => doc[q].requestId # k
  /\ pc' = [pc EXCEPT ![p] = "createSave"]
  /\ doc' = [doc EXCEPT ![p] =
       [NewRequest(req[p].user, req[p].id, req[p].requestType,
                   req[p].expectedReturnDate) EXCEPT !.requestId = k]]
  /\ res' = NoRes
  /\ UNCHANGED <<equipment, requests, now, req>>

\* the required validators of the request schema: equipmentId, and
\* expectedReturnDate when requestType is Issue
ValidRequest(new) ==
  /\ new.equipmentId # NoEquipment
  /\ new.requestType = "Issue" => new.expectedReturnDate # NoDate

\* the unique index on requestId rejects the insert of new
DuplicateKey(new) ==
  \E i \in DOMAIN requests : requests[i].requestId = new.requestId

\* request.save(): schema validation, then the insert under the unique index
CreateSave(p) ==
  /\ pc[p] = "createSave"
  /\ LET new == doc[p]
     IN IF ~ValidRequest(new) \/ DuplicateKey(new)
          THEN /\ Finish(p, 500)
               /\ UNCHANGED requests
          ELSE /\ requests' = Append(requests, new)
               /\ Finish(p, 201)
  /\ UNCHANGED <<equipment, now>>

\* a save whose history entry carries the status the document was loaded with
SaveRequestOldStatus(stored, before, after, dated) ==
  LET paths == {f \in DOMAIN after \ {"statusHistory"} : after[f] # before[f]}
               \cup dated
      entry == [status |-> before.status,
                changedBy |-> IF after.processedBy # NoUser
                                THEN after.processedBy ELSE after.requestedBy,
                notes |-> after.adminNotes]
  IN [f \in DOMAIN stored |->
        IF f = "statusHistory"
          THEN IF "status" \in paths THEN Append(stored[f], entry) ELSE stored[f]
          ELSE IF f \in paths THEN after[f] ELSE stored[f]]

\* a save whose history entry always names the requester
SaveRequestByRequester(stored, before, after, dated) ==
  LET paths == {f \in DOMAIN after \ {"statusHistory"} : after[f] # before[f]}
               \cup dated
      entry == [status |-> after.status,
                changedBy |-> after.requestedBy,
                notes |-> after.adminNotes]
  IN [f \in DOMAIN stored |->
        IF f = "statusHistory"
          THEN IF "status" \in paths THEN Append(stored[f], entry) ELSE stored[f]
          ELSE IF f \in paths THEN after[f] ELSE stored[f]]

\* a save that writes the loaded copy of statusHistory with the new entry
SaveRequestWholeHistory(stored, before, after, dated) ==
  LET paths == {f \in DOMAIN after \ {"statusHistory"} : after[f] # before[f]}
               \cup dated
      entry == [status |-> after.status,
                changedBy |-> IF after.processedBy # NoUser
                                THEN after.processedBy ELSE after.requestedBy,
                notes |-> after.adminNotes]
  IN [f \in DOMAIN stored |->
        IF f = "statusHistory"
          THEN IF "status" \in paths
                 THEN Append(before[f], entry) ELSE stored[f]
          ELSE IF f \in paths THEN after[f] ELSE stored[f]]

\* document.save() of a loaded request: the modified paths are written (a
\* path assigned new Date() is always modified), and
\* requestSchema.pre('save') pushes a history entry {status, changedBy, notes}
\* when status is modified
SaveRequest(stored, before, after, dated) ==
  LET paths == {f \in DOMAIN after \ {"statusHistory"} : after[f] # before[f]}
               \cup dated
      entry == [status |-> after.status,
                changedBy |-> IF after.processedBy # NoUser
                                THEN after.processedBy ELSE after.requestedBy,
                notes |-> after.adminNotes]
  IN [f \in DOMAIN stored |->
        IF f = "statusHistory"
          THEN IF "status" \in paths THEN Append(stored[f], entry) ELSE stored[f]
          ELSE IF f \in paths THEN after[f] ELSE stored[f]]

\* a cancel that looks the request up by its id alone
CancelLoadAnyUser(p, r, user) ==
  /\ pc[p] = "idle"
  /\ IF r \notin DOMAIN requests
       THEN Reply("cancel", r, 404)
       ELSE IF requests[r].status # "Pending"
         THEN Reply("cancel", r, 400)
         ELSE /\ Len(requests[r].statusHistory) + Cardinality(Saving(r)) < MaxHistory
              /\ Suspend(p, "cancel", requests[r], [id |-> r, user |-> user])
  /\ UNCHANGED <<equipment, requests, now>>

\* PUT /api/officer/requests/:id/cancel up to the await of request.save()
CancelLoad(p, r, user) ==
  /\ pc[p] = "idle"
  /\ IF r \notin DOMAIN requests \/ requests[r].requestedBy # user
       THEN Reply("cancel", r, 404)
       ELSE IF requests[r].status # "Pending"
         THEN Reply("cancel", r, 400)
         ELSE /\ Len(requests[r].statusHistory) + Cardinality(Saving(r)) < MaxHistory
              /\ Suspend(p, "cancel", requests[r], [id |-> r, user |-> user])
  /\ UNCHANGED <<equipment, requests, now>>

\* a cancel that also takes the equipment of the request back
CancelAndRelease(p) ==
  /\ pc[p] = "cancel"
  /\ LET r == req[p].id
     IN /\ requests' = [requests EXCEPT ![r] =
             SaveRequest(@, doc[p], [doc[p] EXCEPT !.status = "Cancelled"], {})]
        /\ equipment' = [equipment EXCEPT ![doc[p].equipmentId] =
             IF @ # NoDoc THEN returnFromUser(@) ELSE @]
  /\ Finish(p, 200)
  /\ UNCHANGED now

\* PUT /api/officer/requests/:id/cancel, the save of the cancelled document
CancelSave(p) ==
  /\ pc[p] = "cancel"
  /\ LET r == req[p].id
     IN requests' = [requests EXCEPT ![r] =
          SaveRequest(@, doc[p], [doc[p] EXCEPT !.status = "Cancelled"], {})]
  /\ Finish(p, 200)
  /\ UNCHANGED <<equipment, now>>

\* an administrator's handler loads request r to call approve, reject or
\* complete on it
LoadRequest(p, r, admin, method, notes) ==
  /\ pc[p] = "idle"
  /\ r \in DOMAIN requests
  /\ Len(requests[r].statusHistory) + Cardinality(Saving(r)) < MaxHistory
  /\ Suspend(p, method, requests[r], [id |-> r, user |-> admin, notes |-> notes])
  /\ UNCHANGED <<equipment, requests, now>>

\* requestSchema.methods.approve: the document after the assignments
approve(this, adminId, notes, t) ==
  [this EXCEPT !.status = "Approved", !.processedBy = adminId,
               !.processedDate = t, !.approvedDate = t, !.adminNotes = notes]

\* requestSchema.methods.reject: the document after the assignments
reject(this, adminId, reason, t) ==
  [this EXCEPT !.status = "Rejected", !.processedBy = adminId,
               !.processedDate = t, !.adminNotes = reason]

\* requestSchema.methods.complete: the document after the assignments
complete(this, adminId, notes, t) ==
  [this EXCEPT !.status = "Completed", !.processedBy = adminId,
               !.completedDate = t,
               !.adminNotes = IF notes # NoNotes THEN notes ELSE @]

\* an approve that also issues the equipment of an Issue request
ApproveAndIssue(p) ==
  /\ pc[p] = "approve"
  /\ requests' = [requests EXCEPT ![req[p].id] =
       SaveRequest(@, doc[p], approve(doc[p], req[p].user, req[p].notes, now),
                   {"processedDate", "approvedDate"})]
  /\ equipment' = [equipment EXCEPT ![doc[p].equipmentId] =
       IF @ # NoDoc /\ doc[p].requestType = "Issue"
         THEN issueToUser(@, doc[p].requestedBy) ELSE @]
  /\ Finish(p, 200)
  /\ UNCHANGED now

\* request.approve(adminId, notes) and its save
Approve(p) ==
  /\ pc[p] = "approve"
  /\ requests' = [requests EXCEPT ![req[p].id] =
       SaveRequest(@, doc[p], approve(doc[p], req[p].user, req[p].notes, now),
                   {"processedDate", "approvedDate"})]
  /\ Finish(p, 200)
  /\ UNCHANGED <<equipment, now>>

\* request.reject(adminId, reason) and its save
Reject(p) ==
  /\ pc[p] = "reject"
  /\ requests' = [requests EXCEPT ![req[p].id] =
       SaveRequest(@, doc[p], reject(doc[p], req[p].user, req[p].notes, now),
                   {"processedDate"})]
  /\ Finish(p, 200)
  /\ UNCHANGED <<equipment, now>>

\* request.complete(adminId, notes) and its save
Complete(p) ==
  /\ pc[p] = "complete"
  /\ requests' = [requests EXCEPT ![req[p].id] =
       SaveRequest(@, doc[p], complete(doc[p], req[p].user, req[p].notes, now),
                   {"completedDate"})]
  /\ Finish(p, 200)
  /\ UNCHANGED <<equipment, now>>

\* time passes between two reads of the clock
Tick ==
  /\ now < MaxTime
  /\ now' = now + 1
  /\ res' = NoRes
  /\ UNCHANGED <<equipment, requests, pc, doc, req>>

NextLedger ==
  \/ \E p \in Procs, e \in EquipmentIds, a \in Admins : AddEquipment(p, e, a)
  \/ \E p \in Procs, e \in EquipmentIds, a \in Admins, u \in Officers :
        IssueLoad(p, e, a, u)
  \/ \E p \in Procs : IssueCall(p)
  \/ \E p \in Procs, e \in EquipmentIds, a \in Admins : ReturnLoad(p, e, a)
  \/ \E p \in Procs : ReturnCall(p)
  \/ \E p \in Procs, e \in EquipmentIds, u \in Officers, t \in RequestTypes,
        d \in {NoDate, MaxTime + 1} :
        /\ Len(requests) + Cardinality(Creating) < MaxRequests
        /\ CreateLoad(p, e, u, t, d)
  \/ \E p \in Procs : CreateFindExisting(p)
  \/ \E p \in Procs : CreateGenId(p)
  \/ \E p \in Procs : CreateSave(p)
  \/ \E p \in Procs, r \in RequestIds, u \in Officers : CancelLoad(p, r, u)
  \/ \E p \in Procs : CancelSave(p)
  \/ \E p \in Procs, r \in RequestIds, a \in Admins,
        m \in {"approve", "reject", "complete"}, n \in Notes :
        LoadRequest(p, r, a, m, n)
  \/ \E p \in Procs : Approve(p)
  \/ \E p \in Procs : Reject(p)
  \/ \E p \in Procs : Complete(p)
  \/ Tick

SpecLedger == Init /\ [][NextLedger]_vars

(* ------------------- concurrent creation of requests ------------------- *)
\* officers create requests while administrators add and issue equipment; no
\* request is processed, so that several can be created
NextCreate ==
  \/ \E p \in Procs, e \in EquipmentIds, a \in Admins : AddEquipment(p, e, a)
  \/ \E p \in Procs, e \in EquipmentIds, a \in Admins, u \in Officers :
        IssueLoad(p, e, a, u)
  \/ \E p \in Procs : IssueCall(p)
  \/ \E p \in Procs, e \in EquipmentIds, u \in Officers, t \in RequestTypes,
        d \in {NoDate, MaxTime + 1} :
        /\ Len(requests) + Cardinality(Creating) < MaxCreates
        /\ CreateLoad(p, e, u, t, d)
  \/ \E p \in Procs : CreateFindExisting(p)
  \/ \E p \in Procs : CreateGenId(p)
  \/ \E p \in Procs, k \in FallbackIds : CreateGenIdFallback(p, k)
  \/ \E p \in Procs : CreateSave(p)

SpecCreate == Init /\ [][NextCreate]_vars

(* ------------------- creation of requests one by one ------------------- *)
\* the day's stored requests at the start: none, or EarlierRequests of them,
\* created one by one.  Of these the store keeps the last one here: the
\* others have fewer or as many digits and smaller sequence numbers, so that
\* none of them is the day's last request in the order of strings or
\* collides with an identifier generated later
InitOneByOne ==
  /\ equipment = [e \in EquipmentIds |-> NoDoc]
  /\ requests \in
       {<<>>,
        <<[NewRequest("o1", 1, "Maintenance", NoDate) EXCEPT
             !.requestId = padStart(String(EarlierRequests), SequenceWidth)]>>}
  /\ now = 1
  /\ pc = [p \in Procs |-> "idle"]
  /\ doc = [p \in Procs |-> NoDoc]
  /\ req = [p \in Procs |-> NoReq]
  /\ res = NoRes

\* officers create requests, one create at a time
NextOneByOne ==
  \/ \E p \in Procs, e \in EquipmentIds, a \in Admins : AddEquipment(p, e, a)
  \/ \E p \in Procs, e \in EquipmentIds, u \in Officers, t \in RequestTypes,
        d \in {NoDate, MaxTime + 1} :
        /\ Creating = {}
        /\ Len(requests) < MaxCreates + 2
        /\ CreateLoad(p, e, u, t, d)
  \/ \E p \in Procs : CreateFindExisting(p)
  \/ \E p \in Procs : CreateGenId(p)
  \/ \E p \in Procs : CreateSave(p)

SpecOneByOne == InitOneByOne /\ [][NextOneByOne]_vars

(* ---------------------------- serial numbers --------------------------- *)
\* the identities a new equipment record can get, and the serial numbers an
\* administrator can type
RecordIds == 1..MaxRecords
SerialNumbers == 1..MaxRecords

\* Equipment.findOne({ serialNumber })
ExistingEquipment(serialNumber) ==
  {e \in DOMAIN equipment : /\ equipment[e] # NoDoc
                            /\ equipment[e].serialNumber = serialNumber}

\* an index on serialNumber that is not unique
NoDuplicateSerial(serialNumber) == FALSE

\* the unique index on serialNumber rejects the insert of a second record
DuplicateSerial(serialNumber) == ExistingEquipment(serialNumber) # {}

\* handlers that are between the existence check and the insert of an add
Adding == {p \in Procs : pc[p] = "addSave"}

\* POST /api/equipment up to the await of equipment.save()
AddFind(p, serialNumber, admin) ==
  /\ pc[p] = "idle"
  /\ IF ExistingEquipment(serialNumber) # {}
       THEN Reply("add", serialNumber, 400)
       ELSE Suspend(p, "addSave", NoDoc, [id |-> serialNumber, user |-> admin])
  /\ UNCHANGED <<equipment, requests, now>>

\* POST /api/equipment, from equipment.save() to the response: the insert
\* gives the record a new identity; a duplicate key error is answered 400
AddSave(p) ==
  /\ pc[p] = "addSave"
  /\ IF DuplicateSerial(req[p].id)
       THEN /\ Finish(p, 400)
            /\ UNCHANGED equipment
       ELSE LET free == {e \in DOMAIN equipment : equipment[e] = NoDoc}
                id == CHOOSE e \in free : \A f \in free : e <= f
            IN /\ free # {}
               /\ equipment' = [equipment EXCEPT ![id] =
                     [status |-> "Available", issuedTo |-> NoUser,
                      lastModifiedBy |-> NoUser,
                      serialNumber |-> req[p].id]]
               /\ Finish(p, 201)
  /\ UNCHANGED <<requests, now>>

\* no equipment, no request, every handler idle
InitSerial ==
  /\ equipment = [e \in RecordIds |-> NoDoc]
  /\ requests = <<>>
  /\ now = 1
  /\ pc = [p \in Procs |-> "idle"]
  /\ doc = [p \in Procs |-> NoDoc]
  /\ req = [p \in Procs |-> NoReq]
  /\ res = NoRes

\* administrators add and delete equipment records
NextSerial ==
  \/ \E p \in Procs, s \in SerialNumbers, a \in Admins :
        /\ Cardinality({e \in RecordIds : equipment[e] # NoDoc})
             + Cardinality(Adding) < MaxRecords
        /\ AddFind(p, s, a)
  \/ \E p \in Procs : AddSave(p)
  \/ \E p \in Procs, e \in RecordIds, a \in Admins : DeleteLoad(p, e, a)
  \/ \E p \in Procs : DeleteCommit(p)

SpecSerial == InitSerial /\ [][NextSerial]_vars

(* --------------------------- equipment pools --------------------------- *)
\* req.user.designation of each officer
Designation == [o1 |-> "Inspector", o2 |-> "Constable"]

\* the pools that exist; every equipment record belongs to pool 1
PoolIds == {1}
EquipmentPool ==
  [k \in PoolIds |-> [totalQuantity |-> PoolTotalQuantity,
                      authorizedDesignations |-> {"Inspector"}]]

\* pool.updateCounts(): issuedCount is the number of the pool's equipment
\* records with status Issued, availableCount is what is left of totalQuantity
updateCounts(pool) ==
  LET issuedCount == Cardinality({e \in EquipmentIds :
                        equipment[e] # NoDoc /\ equipment[e].status = "Issued"})
  IN [totalQuantity |-> pool.totalQuantity,
      authorizedDesignations |-> pool.authorizedDesignations,
      issuedCount |-> issuedCount,
      availableCount |-> pool.totalQuantity - issuedCount]

\* a test that never finds the pool empty
NoneAvailableBelowZero(pool) == pool.availableCount < 0

\* the test on the pool's capacity: pool.availableCount === 0
NoneAvailable(pool) == pool.availableCount = 0

\* the test on the requester's designation
NotAuthorized(pool, user) ==
  Designation[user] \notin pool.authorizedDesignations

\* POST /api/officer/equipment-requests/from-pool up to the first await of
\* request.save(); the request has equipmentId null, and an expectedReturnDate
\* (a date after every value of the clock) only when expectedDuration is given
PoolRequestLoad(p, k, user, expectedDuration) ==
  /\ pc[p] = "idle"
  /\ IF k \notin PoolIds
       THEN Reply("pool", k, 404)
       ELSE LET pool == updateCounts(EquipmentPool[k])
            IN IF NoneAvailable(pool)
                 THEN Reply("pool", k, 400)
                 ELSE IF NotAuthorized(pool, user)
                   THEN Reply("pool", k, 403)
                   ELSE Suspend(p, "createId", NoDoc,
                          [id |-> NoEquipment, user |-> user,
                           requestType |-> "Issue",
                           expectedReturnDate |->
                             IF expectedDuration THEN MaxTime + 1 ELSE NoDate])
  /\ UNCHANGED <<equipment, requests, now>>

\* officers request equipment from the pool while administrators add, issue
\* and update the pool's equipment
NextPool ==
  \/ \E p \in Procs, e \in EquipmentIds, a \in Admins : AddEquipment(p, e, a)
  \/ \E p \in Procs, e \in EquipmentIds, a \in Admins, u \in Officers :
        IssueLoad(p, e, a, u)
  \/ \E p \in Procs : IssueCall(p)
  \/ \E p \in Procs, e \in EquipmentIds, a \in Admins,
        s \in EquipmentStatuses \cup {Undefined} : UpdateLoad(p, e, a, s)
  \/ \E p \in Procs : UpdateCommit(p)
  \/ \E p \in Procs, k \in PoolIds \cup {2}, u \in Officers,
        d \in BOOLEAN : PoolRequestLoad(p, k, u, d)
  \/ \E p \in Procs : CreateGenId(p)
  \/ \E p \in Procs, k \in FallbackIds : CreateGenIdFallback(p, k)
  \/ \E p \in Procs : CreateSave(p)

SpecPool == Init /\ [][NextPool]_vars

(* ---------------------- the dates of the custody block ------------------- *)
\* 30 * 24 * 60 * 60 * 1000 ms, in days: the clock of the model counts days
ThirtyDays == 30

\* the dates an issue request can carry in expectedReturnDate; NoDate when
\* the body has none
ReturnDates == {NoDate} \cup (1..MaxTime + 1)

\* the object issueToUser assigns to this.issuedTo: issuedDate is what
\* new Date() read, dateNow is what the later Date.now() read
custody(userId, expectedReturnDate, issuedDate, dateNow) ==
  [userId |-> userId,
   issuedDate |-> issuedDate,
   expectedReturnDate |-> IF expectedReturnDate # NoDate
                            THEN expectedReturnDate
                            ELSE dateNow + ThirtyDays]

\* PUT /api/equipment/:id/issue with the dates of the body, up to the await
\* of Equipment.findById
IssueDatedLoad(p, e, admin, userId, expectedReturnDate) ==
  /\ pc[p] = "idle"
  /\ IF equipment[e] = NoDoc
       THEN Reply("issueDated", e, 404)
       ELSE Suspend(p, "issueDated", equipment[e],
                    [id |-> e, user |-> admin, userId |-> userId,
                     expectedReturnDate |-> expectedReturnDate])
  /\ UNCHANGED <<equipment, requests, now>>

\* PUT /api/equipment/:id/issue, from equipment.issueToUser(...) to the
\* response, with the whole custody block: the clock is read twice, by
\* new Date() and by Date.now(), and may have advanced to dateNow in between
IssueDatedCall(p, dateNow) ==
  /\ pc[p] = "issueDated"
  /\ dateNow >= now
  /\ LET e == req[p].id
         this == doc[p]
     IN IF ~CanIssue(this)
          THEN /\ Finish(p, 400)
               /\ UNCHANGED <<equipment, now>>
          ELSE IF equipment[e] = NoDoc
            THEN /\ Finish(p, 400)
                 /\ UNCHANGED equipment
                 /\ now' = dateNow
            ELSE /\ equipment' = [equipment EXCEPT ![e] =
                       SavePaths(@,
                         [this EXCEPT !.status = "Issued",
                                      !.issuedTo = custody(req[p].userId,
                                          req[p].expectedReturnDate, now, dateNow)],
                         {"status", "issuedTo"})]
                 /\ now' = dateNow
                 /\ Finish(p, 200)
  /\ UNCHANGED requests

NextCustody ==
  \/ \E p \in Procs, e \in EquipmentIds, a \in Admins : AddEquipment(p, e, a)
  \/ \E p \in Procs, e \in EquipmentIds, a \in Admins, u \in Officers,
        d \in ReturnDates : IssueDatedLoad(p, e, a, u, d)
  \/ \E p \in Procs, t \in 1..MaxTime : IssueDatedCall(p, t)
  \/ \E p \in Procs, e \in EquipmentIds, a \in Admins : ReturnLoad(p, e, a)
  \/ \E p \in Procs : ReturnCall(p)
  \/ Tick

SpecCustody == Init /\ [][NextCustody]_vars

(* -------------------- the status of a request alone --------------------- *)
\* the request routes without the direct issue and return of equipment
NextStatus ==
  \/ \E p \in Procs, e \in EquipmentIds, a \in Admins : AddEquipment(p, e, a)
  \/ \E p \in Procs, e \in EquipmentIds, u \in Officers, t \in RequestTypes,
        d \in {NoDate, MaxTime + 1} :
        /\ Len(requests) + Cardinality(Creating) < MaxRequests
        /\ CreateLoad(p, e, u, t, d)
  \/ \E p \in Procs : CreateFindExisting(p)
  \/ \E p \in Procs : CreateGenId(p)
  \/ \E p \in Procs : CreateSave(p)
  \/ \E p \in Procs, r \in RequestIds, u \in Officers : CancelLoad(p, r, u)
  \/ \E p \in Procs : CancelSave(p)
  \/ \E p \in Procs, r \in RequestIds, a \in Admins,
        m \in {"approve", "reject", "complete"}, n \in Notes :
        LoadRequest(p, r, a, m, n)
  \/ \E p \in Procs : Approve(p)
  \/ \E p \in Procs : Reject(p)
  \/ \E p \in Procs : Complete(p)

SpecStatus == Init /\ [][NextStatus]_vars

(* ------------------ removal of equipment under request ------------------ *)
\* requests are created and approved while administrators add and delete
\* equipment
NextRemoval ==
  \/ \E p \in Procs, e \in EquipmentIds, a \in Admins : AddEquipment(p, e, a)
  \/ \E p \in Procs, e \in EquipmentIds, a \in Admins : DeleteLoad(p, e, a)
  \/ \E p \in Procs : DeleteCommit(p)
  \/ \E p \in Procs, e \in EquipmentIds, u \in Officers, t \in RequestTypes,
        d \in {NoDate, MaxTime + 1} :
        /\ Len(requests) + Cardinality(Creating) < MaxRequests
        /\ CreateLoad(p, e, u, t, d)
  \/ \E p \in Procs : CreateFindExisting(p)
  \/ \E p \in Procs : CreateGenId(p)
  \/ \E p \in Procs : CreateSave(p)
  \/ \E p \in Procs, r \in RequestIds, a \in Admins, n \in Notes :
        LoadRequest(p, r, a, "approve", n)
  \/ \E p \in Procs : Approve(p)

SpecRemoval == Init /\ [][NextRemoval]_vars

(* ------------------------ an officer's own items ------------------------ *)
\* GET /api/officer/dashboard:
\* Equipment.countDocuments({ 'issuedTo.userId': req.user._id })
myIssuedEquipment(user) ==
  Cardinality({e \in EquipmentIds :
                 equipment[e] # NoDoc /\ equipment[e].issuedTo = user})

\* GET /api/officer/equipment/issued:
\* Equipment.find({ 'issuedTo.userId': req.user._id, status: 'Issued' })
issuedEquipment(user) ==
  {e \in EquipmentIds : /\ equipment[e] # NoDoc
                        /\ equipment[e].issuedTo = user
                        /\ equipment[e].status = "Issued"}

(* ------------------------------- claims ------------------------------- *)
\* handler p answers in this step the request it was suspended in at `label`
Answers(p, label) == pc[p] = label /\ pc'[p] = "idle"

\* C1: in every reachable state an equipment record has status Issued if and
\* only if its custody block (issuedTo.userId) is present.
C1_IssuedIffCustody ==
  \A e \in EquipmentIds :
    equipment[e] # NoDoc =>
      (equipment[e].status = "Issued" <=> equipment[e].issuedTo # NoUser)

\* C2: of two issue operations on the same Available item that both loaded it
\* before either saved, only one succeeds: an issue never succeeds on a stored
\* record that is already Issued to a holder, so no holder is overwritten.
C2_NoLostIssue ==
  [][\A p \in Procs :
       (Answers(p, "issue") /\ res'.code = 200) =>
          ~(equipment[req[p].id].status = "Issued"
            /\ equipment[req[p].id].issuedTo # NoUser)]_vars

\* C3: issueToUser succeeds only when the status it finds on the record is
\* Available; on a record that is Issued, Under Maintenance or Retired the
\* handler answers with an error and no equipment record changes.
C3_IssueOnlyFromAvailable ==
  [][\A p \in Procs :
       Answers(p, "issue") =>
          /\ res'.code = 200 => doc[p].status = "Available"
          /\ doc[p].status # "Available" =>
                res'.code = 400 /\ equipment' = equipment]_vars

\* C3 witness: an issue has just been refused on an item that is Issued
C3_Witness ==
  /\ res.route = "issue" /\ res.code = 400
  /\ equipment[res.id] # NoDoc
  /\ equipment[res.id].status = "Issued"
  /\ equipment[res.id].issuedTo # NoUser

\* C4: returnFromUser succeeds only when the status it finds on the record is
\* Issued, and then the stored record is Available with no custody block; on
\* a record in any other status the handler answers with an error and no
\* equipment record changes.
C4_ReturnOnlyFromIssued ==
  [][\A p \in Procs :
       Answers(p, "return") =>
          /\ res'.code = 200 =>
                /\ doc[p].status = "Issued"
                /\ equipment'[req[p].id].status = "Available"
                /\ equipment'[req[p].id].issuedTo = NoUser
          /\ doc[p].status # "Issued" =>
                res'.code = 400 /\ equipment' = equipment]_vars

\* C4 witness: a return has just succeeded and the item is Available again
C4_Witness ==
  /\ res.route = "return" /\ res.code = 200
  /\ equipment[res.id] # NoDoc
  /\ equipment[res.id].status = "Available"
  /\ equipment[res.id].issuedTo = NoUser

\* C5: approve succeeds only on a Pending request; on a request that is
\* Approved, Rejected, Completed or Cancelled it fails and changes none of the
\* request's fields.
C5_ApproveOnlyFromPending ==
  [][\A p \in Procs :
       (Answers(p, "approve") /\ doc[p].status # "Pending") =>
          res'.code # 200 /\ requests' = requests]_vars

\* C6: Rejected, Cancelled and Completed are terminal: no step changes the
\* status of a request that has one of them.
C6_TerminalStatuses ==
  [][\A r \in DOMAIN requests :
       requests[r].status \in {"Rejected", "Cancelled", "Completed"} =>
          requests'[r].status = requests[r].status]_vars

\* C7: right after complete succeeds on an Approved Issue request, the target
\* equipment is Issued and its holder is the request's requester.
C7_CompleteIssueTransfersCustody ==
  [][\A p \in Procs :
       (/\ Answers(p, "complete") /\ res'.code = 200
        /\ doc[p].status = "Approved" /\ doc[p].requestType = "Issue") =>
          /\ equipment'[doc[p].equipmentId] # NoDoc
          /\ equipment'[doc[p].equipmentId].status = "Issued"
          /\ equipment'[doc[p].equipmentId].issuedTo = doc[p].requestedBy]_vars

\* C8: right after complete succeeds on an Approved Return request, the
\* target equipment is Available and has no custody block.
C8_CompleteReturnReleasesCustody ==
  [][\A p \in Procs :
       (/\ Answers(p, "complete") /\ res'.code = 200
        /\ doc[p].status = "Approved" /\ doc[p].requestType = "Return") =>
          /\ equipment'[doc[p].equipmentId] # NoDoc
          /\ equipment'[doc[p].equipmentId].status = "Available"
          /\ equipment'[doc[p].equipmentId].issuedTo = NoUser]_vars

\* C9: complete is all-or-nothing: called on an Approved Issue request whose
\* target equipment is no longer Available, it leaves the request not
\* Completed and the equipment unchanged.
C9_CompleteAllOrNothing ==
  [][\A p \in Procs :
       (/\ Answers(p, "complete")
        /\ doc[p].status = "Approved" /\ doc[p].requestType = "Issue"
        /\ \/ equipment[doc[p].equipmentId] = NoDoc
           \/ equipment[doc[p].equipmentId].status # "Available") =>
          /\ requests'[req[p].id].status # "Completed"
          /\ equipment' = equipment]_vars

\* C10: approve and reject never change any equipment record.
C10_ApproveRejectLeaveEquipment ==
  [][\A p \in Procs :
       (Answers(p, "approve") \/ Answers(p, "reject")) =>
          equipment' = equipment]_vars

\* C10 witness: an Issue request has just been approved and its equipment is
\* still Available with no holder
C10_Witness ==
  /\ res.route = "approve" /\ res.code = 200
  /\ requests[res.id].requestType = "Issue"
  /\ requests[res.id].status = "Approved"
  /\ equipment[requests[res.id].equipmentId] # NoDoc
  /\ equipment[requests[res.id].equipmentId].status = "Available"
  /\ equipment[requests[res.id].equipmentId].issuedTo = NoUser
\* C11: in every reachable state at most one Pending Issue request exists for
\* any pair of requester and equipment, also after the same requester has
\* submitted two create-request calls for the same equipment concurrently.
C11_OnePendingIssuePerPair ==
  \A i, j \in DOMAIN requests :
    (/\ requests[i].requestType = "Issue" /\ requests[j].requestType = "Issue"
     /\ requests[i].status = "Pending" /\ requests[j].status = "Pending"
     /\ requests[i].requestedBy = requests[j].requestedBy
     /\ requests[i].equipmentId = requests[j].equipmentId) => i = j

\* C12: two concurrent creations never compute the same sequence number from
\* the same observed maximum: two requests that are about to be inserted
\* carry distinct identifiers, so that both get created.
C12_DistinctIdentifiers ==
  \A p, q \in Procs :
    (p # q /\ pc[p] = "createSave" /\ pc[q] = "createSave") =>
       doc[p].requestId # doc[q].requestId

\* C13: create never fails because of identifier generation: the save of a
\* request that passes the schema's validators inserts it and answers 201,
\* also when the generated identifier is already taken.
C13_CreateNeverFailsOnIdentifier ==
  [][\A p \in Procs :
       (Answers(p, "createSave") /\ ValidRequest(doc[p])) =>
          /\ res'.code = 201
          /\ Len(requests') = Len(requests) + 1]_vars
\* C14: the number of successful allocations from a pool never exceeds the
\* pool's capacity, and every attempt by an authorized requester either
\* succeeds or fails with Unavailable (which is answered before the save).
C14_PoolCapacity ==
  [][/\ Cardinality({i \in DOMAIN requests' :
                       requests'[i].equipmentId = NoEquipment})
          <= PoolTotalQuantity
     /\ \A p \in Procs :
          (Answers(p, "createSave") /\ req[p].id = NoEquipment) =>
             res'.code = 201]_vars

\* C15: requestFromPool by a requester whose designation is not authorized
\* for the pool fails with Unauthorized and creates no request, whatever the
\* pool's available count is (also when it is 0).
C15_UnauthorizedAlwaysRefused ==
  [][\A p \in Procs, k \in PoolIds, u \in Officers, d \in BOOLEAN :
       (PoolRequestLoad(p, k, u, d) /\ NotAuthorized(EquipmentPool[k], u)) =>
          /\ res'.code = 403
          /\ requests' = requests /\ pc'[p] = "idle"]_vars
\* C16: an equipment record is never removed while its status is Issued, also
\* when a delete runs concurrently with an issue of the same item.
C16_IssuedNeverRemoved ==
  [][\A e \in EquipmentIds :
       (equipment[e] # NoDoc /\ equipment[e].status = "Issued") =>
          equipment'[e] # NoDoc]_vars

\* C17: every step that changes an equipment's status to or from Issued is an
\* issueToUser or returnFromUser step whose guard holds on the document it
\* loaded; the general update cannot move an item into or out of Issued.
C17_CustodyOnlyByIssueReturn ==
  [][\A e \in EquipmentIds :
       (/\ equipment[e] # NoDoc /\ equipment'[e] # NoDoc
        /\ (equipment[e].status = "Issued") # (equipment'[e].status = "Issued")) =>
          \E p \in Procs :
             /\ req[p].id = e
             /\ \/ Answers(p, "issue") /\ CanIssue(doc[p])
                \/ Answers(p, "return") /\ CanReturn(doc[p])]_vars

\* C18: cancel succeeds only on a request that it found Pending and that was
\* created by the caller, and then the stored status is Cancelled; a cancel
\* by any other user, or on a request that is not Pending, is answered with
\* an error and leaves every request unchanged.
C18_CancelOnlyPendingByRequester ==
  [][/\ (res'.route = "cancel" /\ res'.code = 200) =>
          \E p \in Procs : Answers(p, "cancel")
     /\ \A p \in Procs :
          /\ (Answers(p, "cancel") /\ res'.code = 200) =>
                /\ doc[p].status = "Pending"
                /\ doc[p].requestedBy = req[p].user
                /\ requests'[req[p].id].status = "Cancelled"
          /\ \A r \in RequestIds, u \in Officers :
                (/\ CancelLoad(p, r, u)
                 /\ \/ r \notin DOMAIN requests
                    \/ requests[r].requestedBy # u
                    \/ requests[r].status # "Pending") =>
                   /\ res'.code \in {400, 404}
                   /\ pc'[p] = "idle"
                   /\ requests' = requests]_vars

\* C18 witness: the requester has just cancelled a request; it is stored as
\* Cancelled and its history names the requester
C18_Witness ==
  /\ res.route = "cancel" /\ res.code = 200
  /\ requests[res.id].status = "Cancelled"
  /\ requests[res.id].statusHistory # <<>>
  /\ LET h == requests[res.id].statusHistory
     IN /\ h[Len(h)].status = "Cancelled"
        /\ h[Len(h)].changedBy = requests[res.id].requestedBy

\* C19: creating an Issue request goes on to the insert only if the handler
\* found the equipment Available; otherwise the call is answered with an
\* error and no request is created. A created request starts Pending with an
\* empty statusHistory, and requests are created by successful creates only.
C19_IssueRequestNeedsAvailable ==
  [][/\ Len(requests') > Len(requests) =>
          \E p \in Procs : Answers(p, "createSave") /\ res'.code = 201
     /\ \A p \in Procs :
          /\ \A e \in EquipmentIds, u \in Officers, d \in {NoDate, MaxTime + 1} :
                (/\ CreateLoad(p, e, u, "Issue", d)
                 /\ (equipment[e] = NoDoc \/ equipment[e].status # "Available")) =>
                   /\ res'.code \in {400, 404}
                   /\ pc'[p] = "idle"
                   /\ requests' = requests
          /\ (/\ pc[p] = "idle" /\ pc'[p] \in {"create", "createId"}
              /\ req'[p].requestType = "Issue") =>
                /\ pc'[p] = "create"
                /\ equipment[req'[p].id] # NoDoc
                /\ equipment[req'[p].id].status = "Available"
          /\ (Answers(p, "createSave") /\ res'.code = 201) =>
                /\ requests' = Append(requests, doc[p])
                /\ doc[p].status = "Pending"
                /\ doc[p].statusHistory = <<>>]_vars

\* C19 witness: an Issue request for an Available item has just been created
C19_Witness ==
  /\ res.route = "createSave" /\ res.code = 201
  /\ requests # <<>>
  /\ LET new == requests[Len(requests)]
     IN /\ new.requestType = "Issue"
        /\ new.status = "Pending" /\ new.statusHistory = <<>>
        /\ equipment[new.equipmentId] # NoDoc
        /\ equipment[new.equipmentId].status = "Available"

\* C20: creating a Return request goes on to the insert only if the handler
\* found the equipment Issued with the requester as its holder; for an item
\* that is not Issued, or is issued to another user, the call is answered
\* with an error and no request is created.
C20_ReturnRequestNeedsCustody ==
  [][\A p \in Procs :
       /\ \A e \in EquipmentIds, u \in Officers, d \in {NoDate, MaxTime + 1} :
             (/\ CreateLoad(p, e, u, "Return", d)
              /\ \/ equipment[e] = NoDoc
                 \/ equipment[e].status # "Issued"
                 \/ equipment[e].issuedTo # u) =>
                /\ res'.code \in {400, 404}
                /\ pc'[p] = "idle"
                /\ requests' = requests
       /\ (/\ pc[p] = "idle" /\ pc'[p] \in {"create", "createId"}
           /\ req'[p].requestType = "Return") =>
             /\ equipment[req'[p].id] # NoDoc
             /\ equipment[req'[p].id].status = "Issued"
             /\ equipment[req'[p].id].issuedTo = req'[p].user]_vars

\* C20 witness: a Return request has just been created by the holder of an
\* Issued item
C20_Witness ==
  /\ res.route = "createSave" /\ res.code = 201
  /\ requests # <<>>
  /\ LET new == requests[Len(requests)]
     IN /\ new.requestType = "Return"
        /\ equipment[new.equipmentId] # NoDoc
        /\ equipment[new.equipmentId].status = "Issued"
        /\ equipment[new.equipmentId].issuedTo = new.requestedBy
\* C21: statusHistory is append-only: in every step the history of a stored
\* request is a prefix of its history after the step, and a step that changes
\* the request's status appends exactly one entry, whose status is the new
\* status.
C21_HistoryAppendOnly ==
  [][\A r \in DOMAIN requests :
       /\ r \in DOMAIN requests'
       /\ LET h == requests[r].statusHistory
              g == requests'[r].statusHistory
          IN /\ Len(h) <= Len(g)
             /\ SubSeq(g, 1, Len(h)) = h
             /\ requests'[r].status # requests[r].status =>
                   /\ Len(g) = Len(h) + 1
                   /\ g[Len(g)].status = requests'[r].status]_vars

\* C21 witness: a request has gone through two status changes and its history
\* holds both, the second one just appended
C21_Witness ==
  /\ res.code = 200 /\ res.route \in {"cancel", "approve", "reject", "complete"}
  /\ LET h == requests[res.id].statusHistory
     IN /\ Len(h) = 2
        /\ h[1].status # h[2].status
        /\ h[2].status = requests[res.id].status
C23_SerialNumbersUnique ==
  [][/\ \A e, f \in RecordIds :
          (/\ equipment'[e] # NoDoc /\ equipment'[f] # NoDoc
           /\ equipment'[e].serialNumber = equipment'[f].serialNumber) => e = f
     /\ \A p \in Procs :
          /\ (Answers(p, "addSave") /\ ExistingEquipment(req[p].id) # {}) =>
                res'.code = 400 /\ equipment' = equipment
          /\ \A s \in SerialNumbers, a \in Admins :
                (AddFind(p, s, a) /\ ExistingEquipment(s) # {}) =>
                   /\ res'.code = 400
                   /\ pc'[p] = "idle"
                   /\ equipment' = equipment]_vars

\* C23 witness: of two adds that had both passed the existence check, the
\* second has just been refused at the insert, and one record carries the
\* serial number
C23_Witness ==
  /\ res.route = "addSave" /\ res.code = 400
  /\ Cardinality(ExistingEquipment(res.id)) = 1
\* C24: requestFromPool persists its request: the save of a pool request,
\* which names no equipment item, inserts it and answers 201.
C24_PoolRequestPersisted ==
  [][\A p \in Procs :
       (/\ Answers(p, "createSave")
        /\ req[p].id = NoEquipment /\ req[p].expectedReturnDate # NoDate) =>
          /\ res'.code = 201
          /\ requests' = Append(requests, doc[p])]_vars

\* C25: reject succeeds only on a Pending request; on a request that is not
\* Pending (Approved, for one) it fails and leaves the request as it is.
C25_RejectOnlyFromPending ==
  [][\A p \in Procs :
       (Answers(p, "reject") /\ doc[p].status # "Pending") =>
          res'.code # 200 /\ requests' = requests]_vars

\* C26: a request reaches Completed only through Approved: in every
\* reachable state a Completed request has an approvedDate.
C26_CompletedWasApproved ==
  \A r \in DOMAIN requests :
    requests[r].status = "Completed" => requests[r].approvedDate # NoDate

\* C27: the create of an Issue request without an expectedReturnDate is
\* answered with a client error (400), not a server failure, and stores
\* nothing; and every stored Issue request has an expectedReturnDate.
C27_MissingReturnDateIsClientError ==
  [][/\ \A p \in Procs :
          (/\ Answers(p, "createSave")
           /\ doc[p].requestType = "Issue"
           /\ doc[p].expectedReturnDate = NoDate) =>
             res'.code = 400 /\ requests' = requests
     /\ \A r \in DOMAIN requests' :
          requests'[r].requestType = "Issue" =>
             requests'[r].expectedReturnDate # NoDate]_vars

\* C28: of a cancel and an approve (or reject) that run concurrently on the
\* same Pending request only one takes effect: a request never has status
\* Cancelled together with the processedBy, processedDate or approvedDate
\* stamped by an administrator.
C28_CancelExcludesProcessing ==
  \A r \in DOMAIN requests :
    requests[r].status = "Cancelled" =>
       /\ requests[r].processedBy = NoUser
       /\ requests[r].processedDate = NoDate
       /\ requests[r].approvedDate = NoDate
\* C29: with requests created one at a time on the same day, a create that
\* passes validation succeeds, its identifier has exactly 4 digits, its
\* sequence number is one more than the greatest sequence number of the day
\* (1 on an empty day), and the identifier is greater than every identifier
\* of the day as a number and as a string; also beyond 9999.
C29_SequentialIdentifiers ==
  [][\A p \in Procs :
       (Answers(p, "createSave") /\ ValidRequest(doc[p])) =>
          LET id == doc[p].requestId
              day == {requests[i].requestId : i \in DOMAIN requests}
          IN /\ res'.code = 201
             /\ requests' = Append(requests, doc[p])
             /\ Len(id) = SequenceWidth
             /\ day = {} => parseInt(id) = 1
             /\ \A n \in day : /\ parseInt(n) < parseInt(id)
                                /\ StringLess(n, id)
             /\ day # {} => \E n \in day : parseInt(id) = parseInt(n) + 1]_vars
C31_CustodyBlock ==
  [][\A p \in Procs :
       Answers(p, "issueDated") /\ res'.code = 200 =>
         LET block == equipment'[req[p].id].issuedTo
         IN /\ block.userId = req[p].userId
            /\ block.issuedDate = now
            /\ block.expectedReturnDate =
                 IF req[p].expectedReturnDate # NoDate
                   THEN req[p].expectedReturnDate
                   ELSE block.issuedDate + ThirtyDays]_vars

\* C32: request records are never deleted: every stored request stays stored
\* under its identifier, and a request whose status is Cancelled stays stored
\* with status Cancelled
C32_RequestsNeverDeleted ==
  [][\A r \in DOMAIN requests :
       /\ r \in DOMAIN requests'
       /\ requests'[r].requestId = requests[r].requestId
       /\ requests[r].status = "Cancelled" =>
            requests'[r].status = "Cancelled"]_vars

\* C33: whenever the statusHistory of a request is not empty, the status of
\* its last entry is the current status of the request
C33_LastEntryIsStatus ==
  \A r \in DOMAIN requests :
    LET h == requests[r].statusHistory
    IN h # <<>> => h[Len(h)].status = requests[r].status

\* approve has answered on a request that was Approved already: the one
\* history entry still carries the notes of the first approve
C33_Witness ==
  /\ res.route = "approve" /\ res.code = 200
  /\ res.id \in DOMAIN requests
  /\ requests[res.id].status = "Approved"
  /\ requests[res.id].adminNotes = NoNotes
  /\ Len(requests[res.id].statusHistory) = 1
  /\ requests[res.id].statusHistory[1].status = "Approved"
  /\ requests[res.id].statusHistory[1].notes = "note"

\* C37: the history entry appended by a cancellation of a request that no
\* administrator has processed names the requester as changedBy, and the entry
\* appended by approve, reject or complete names the acting administrator
C37_ChangedBy ==
  [][\A p \in Procs :
       LET r == req[p].id
           h == requests'[r].statusHistory
           appended == Len(h) = Len(requests[r].statusHistory) + 1
       IN /\ (Answers(p, "cancel") /\ doc[p].processedBy = NoUser) =>
               /\ appended
               /\ h[Len(h)].status = "Cancelled"
               /\ h[Len(h)].changedBy = requests[r].requestedBy
               /\ req[p].user = requests[r].requestedBy
          /\ ((Answers(p, "approve") \/ Answers(p, "reject")
                 \/ Answers(p, "complete")) /\ appended) =>
               /\ h[Len(h)].changedBy = req[p].user
               /\ req[p].user \in Admins]_vars

\* reject has answered on a request that was Pending: its only history entry
\* is the rejection, made by the administrator who processed it
C37_Witness ==
  /\ res.route = "reject" /\ res.code = 200
  /\ res.id \in DOMAIN requests
  /\ requests[res.id].status = "Rejected"
  /\ Len(requests[res.id].statusHistory) = 1
  /\ requests[res.id].statusHistory[1].status = "Rejected"
  /\ requests[res.id].processedBy \in Admins
  /\ requests[res.id].statusHistory[1].changedBy = requests[res.id].processedBy

\* C34: every request that is Pending or Approved refers to an equipment
\* record that exists
C34_OpenRequestsHaveEquipment ==
  \A r \in DOMAIN requests :
    requests[r].status \in {"Pending", "Approved"} =>
      /\ requests[r].equipmentId \in EquipmentIds
      /\ equipment[requests[r].equipmentId] # NoDoc

\* C35: no step of creating or cancelling a request changes an equipment
\* record, and no step of issuing or returning equipment directly changes a
\* request record
C35_RequestsAndEquipmentApart ==
  [][\A p \in Procs :
       /\ (\/ pc[p] \in {"create", "createId", "createSave", "cancel"}
              /\ pc'[p] # pc[p]
           \/ pc'[p] \in {"create", "createId", "createSave", "cancel"}
              /\ pc'[p] # pc[p]
           \/ res'.route \in {"create", "createId", "createSave", "cancel"})
            => equipment' = equipment
       /\ (\/ pc[p] \in {"issue", "return"} /\ pc'[p] # pc[p]
           \/ pc'[p] \in {"issue", "return"} /\ pc'[p] # pc[p]
           \/ res'.route \in {"issue", "return"})
            => requests' = requests]_vars

\* a request has just been cancelled while its equipment is out on a direct
\* issue: the item is still Issued to its holder
C35_Witness ==
  /\ res.route = "cancel" /\ res.code = 200
  /\ res.id \in DOMAIN requests
  /\ requests[res.id].status = "Cancelled"
  /\ equipment[requests[res.id].equipmentId] # NoDoc
  /\ equipment[requests[res.id].equipmentId].status = "Issued"
  /\ equipment[requests[res.id].equipmentId].issuedTo \in Officers

\* C36: for every user the dashboard's myIssuedEquipment count equals the
\* number of items of the issued-equipment listing
C36_DashboardMatchesListing ==
  \A u \in Officers : myIssuedEquipment(u) = Cardinality(issuedEquipment(u))

====
